---- MODULE Spec2Model ----
(***************************************************************************)
(* Graph Theory Analyzer (src/main.py): the graph algorithms               *)
(* (bfs_with_depth, dfs_with_depth, has_cycle, greedy_coloring,            *)
(* find_max_clique) as operators, and GraphApp (render state, traversal    *)
(* animation, worker thread and timer callbacks) as a state machine.       *)
(*                                                                         *)
(* Spec     : GraphApp on a fixed graph, user actions interleaved with     *)
(*            the animation worker thread and the animation timers.        *)
(* SpecAlg  : the algorithms applied to every graph of at most MaxNodes    *)
(*            nodes.                                                       *)
(***************************************************************************)
EXTENDS Integers, Sequences, FiniteSets, TLC

VARIABLES G, current_coloring, clique_nodes, node_colors, anim_thread,
          anim, anims, draws, last, res

vars == <<G, current_coloring, clique_nodes, node_colors, anim_thread,
          anim, anims, draws, last, res>>

\* ---------------------------------------------------------------- bounds
\* Largest graph the algorithms are applied to (SpecAlg).
MaxNodes == 4
\* Number of nodes of the graph GraphApp is run on (Spec).
AppNodes == 2
\* Number of traversal animations accepted in one run (Spec).
MaxAnims == 2

\* ------------------------------------------------------- program constants
TableauLen == 10
Css4Len == 148

\* ------------------------------------------------------------ option values
None == [some |-> FALSE]
Some(x) == [some |-> TRUE, val |-> x]
Raised(e) == [ok |-> FALSE, err |-> e]
Returned(v) == [ok |-> TRUE, val |-> v]

\* The value result.get(neigh) has for a node without a colour.
NoColor == -1
\* The parent argument of the outermost dfs_cycle call.
NoParent == -1

\* ------------------------------------------------------------------ graphs
\* An undirected simple graph: nodes 0..N-1, edges two-element sets.
NodesOf(g) == 0 .. (g.N - 1)

AllEdges(n) == {{u, v} : u, v \in 0 .. (n - 1)} \ {{u} : u \in 0 .. (n - 1)}

GraphsOn(n) == {[N |-> n, E |-> es] : es \in SUBSET AllEdges(n)}

Neighbors(g, v) == {u \in NodesOf(g) : {u, v} \in g.E}

RECURSIVE ReachFrom(_, _)
ReachFrom(g, S) ==
    LET T == S \cup UNION {Neighbors(g, v) : v \in S}
    IN IF T = S THEN S ELSE ReachFrom(g, T)

\* The nodes connected to s by a path.
Reachable(g, s) == ReachFrom(g, {s})

SetMin(S) == CHOOSE m \in S : \A x \in S : m <= x

SetMax(S) == CHOOSE m \in S : \A x \in S : x <= m

RECURSIVE Sorted(_)
Sorted(S) == IF S = {} THEN <<>>
             ELSE LET m == SetMin(S) IN <<m>> \o Sorted(S \ {m})

Range(s) == {s[i] : i \in DOMAIN s}

\* Permutations of the nodes: the orders in which a graph may hand out its
\* nodes and neighbours when they are iterated without sorting.
RECURSIVE PermsOf(_)
PermsOf(S) ==
    IF S = {} THEN {<<>>}
    ELSE UNION {{<<x>> \o p : p \in PermsOf(S \ {x})} : x \in S}

Perms(g) == PermsOf(NodesOf(g))

InOrder(S, perm) == SelectSeq(perm, LAMBDA x : x \in S)

\* ------------------------------------------------------------- bfs_with_depth
\* Variant of BfsNeighbors: a newly found neighbour goes to the front of the
\* queue instead of the back.
RECURSIVE BfsNeighborsLifo(_, _, _, _)
BfsNeighborsLifo(nbrs, depth, visited, queue) ==
    IF nbrs = <<>> THEN [visited |-> visited, queue |-> queue]
    ELSE LET neighbor == Head(nbrs) IN
         IF neighbor \notin visited
         THEN BfsNeighborsLifo(Tail(nbrs), depth, visited \cup {neighbor},
                               <<<<neighbor, depth + 1>>>> \o queue)
         ELSE BfsNeighborsLifo(Tail(nbrs), depth, visited, queue)

RECURSIVE BfsNeighbors(_, _, _, _)
BfsNeighbors(nbrs, depth, visited, queue) ==
    IF nbrs = <<>> THEN [visited |-> visited, queue |-> queue]
    ELSE LET neighbor == Head(nbrs) IN
         IF neighbor \notin visited
         THEN BfsNeighbors(Tail(nbrs), depth, visited \cup {neighbor},
                           Append(queue, <<neighbor, depth + 1>>))
         ELSE BfsNeighbors(Tail(nbrs), depth, visited, queue)

RECURSIVE BfsLoop(_, _, _, _)
BfsLoop(g, visited, queue, order) ==
    IF queue = <<>> THEN Returned(order)
    ELSE LET node  == Head(queue)[1]
             depth == Head(queue)[2]
         IN IF node \notin NodesOf(g) THEN Raised("NetworkXError")
            ELSE LET st == BfsNeighbors(Sorted(Neighbors(g, node)), depth,
                                        visited, Tail(queue))
                 IN BfsLoop(g, st.visited, st.queue,
                            Append(order, <<node, depth>>))

bfs_with_depth(g, start) == BfsLoop(g, {start}, <<<<start, 0>>>>, <<>>)

\* ------------------------------------------------------------- dfs_with_depth
RECURSIVE dfs_rec(_, _, _, _)
RECURSIVE DfsNeighbors(_, _, _, _)
\* Variant of DfsNeighbors: the loop ends after the first neighbour it
\* descends into.
RECURSIVE DfsNeighborsFirstOnly(_, _, _, _)
DfsNeighborsFirstOnly(g, nbrs, depth, st) ==
    IF nbrs = <<>> THEN st
    ELSE LET neighbor == Head(nbrs) IN
         IF neighbor \notin st.visited
         THEN dfs_rec(g, neighbor, depth + 1, st)
         ELSE DfsNeighborsFirstOnly(g, Tail(nbrs), depth, st)

DfsNeighbors(g, nbrs, depth, st) ==
    IF nbrs = <<>> THEN st
    ELSE LET neighbor == Head(nbrs) IN
         IF neighbor \notin st.visited
         THEN DfsNeighbors(g, Tail(nbrs), depth,
                           dfs_rec(g, neighbor, depth + 1, st))
         ELSE DfsNeighbors(g, Tail(nbrs), depth, st)

Reverse(s) == [i \in 1 .. Len(s) |-> s[Len(s) + 1 - i]]

\* Variant of dfs_rec: the neighbours are visited in descending order.
DfsRecDescending(g, node, depth, st) ==
    DfsNeighbors(g, Reverse(Sorted(Neighbors(g, node))), depth,
                 [visited |-> st.visited \cup {node},
                  order   |-> Append(st.order, <<node, depth>>)])

dfs_rec(g, node, depth, st) ==
    DfsNeighbors(g, Sorted(Neighbors(g, node)), depth,
                 [visited |-> st.visited \cup {node},
                  order   |-> Append(st.order, <<node, depth>>)])

dfs_with_depth(g, start) ==
    IF start \notin NodesOf(g) THEN Raised("NetworkXError")
    ELSE Returned(dfs_rec(g, start, 0, [visited |-> {}, order |-> <<>>]).order)

\* ------------------------------------------------------------------ has_cycle
RECURSIVE dfs_cycle(_, _, _, _, _)
RECURSIVE CycleNeighbors(_, _, _, _, _, _)
\* Variant of CycleNeighbors: the edge back to the parent is not excluded.
RECURSIVE CycleNeighborsAnyBackEdge(_, _, _, _, _, _)
CycleNeighborsAnyBackEdge(g, perm, nbrs, v, parent, st) ==
    IF nbrs = <<>>
    THEN [visited |-> st.visited, rec_stack |-> st.rec_stack \ {v},
          ret |-> FALSE]
    ELSE LET neighbor == Head(nbrs) IN
         IF neighbor \notin st.visited
         THEN LET r == dfs_cycle(g, perm, neighbor, v, st) IN
              IF r.ret THEN r
              ELSE CycleNeighborsAnyBackEdge(g, perm, Tail(nbrs), v, parent, r)
         ELSE IF neighbor \in st.rec_stack
              THEN [st EXCEPT !.ret = TRUE]
              ELSE CycleNeighborsAnyBackEdge(g, perm, Tail(nbrs), v, parent,
                                             st)

CycleNeighbors(g, perm, nbrs, v, parent, st) ==
    IF nbrs = <<>>
    THEN [visited |-> st.visited, rec_stack |-> st.rec_stack \ {v},
          ret |-> FALSE]
    ELSE LET neighbor == Head(nbrs) IN
         IF neighbor \notin st.visited
         THEN LET r == dfs_cycle(g, perm, neighbor, v, st) IN
              IF r.ret THEN r
              ELSE CycleNeighbors(g, perm, Tail(nbrs), v, parent, r)
         ELSE IF neighbor \in st.rec_stack /\ neighbor # parent
              THEN [st EXCEPT !.ret = TRUE]
              ELSE CycleNeighbors(g, perm, Tail(nbrs), v, parent, st)

dfs_cycle(g, perm, v, parent, st) ==
    CycleNeighbors(g, perm, InOrder(Neighbors(g, v), perm), v, parent,
                   [visited   |-> st.visited \cup {v},
                    rec_stack |-> st.rec_stack \cup {v},
                    ret       |-> FALSE])

RECURSIVE CycleNodes(_, _, _, _)
CycleNodes(g, perm, nodes, st) ==
    IF nodes = <<>> THEN FALSE
    ELSE LET n == Head(nodes) IN
         IF n \notin st.visited
         THEN LET r == dfs_cycle(g, perm, n, NoParent, st) IN
              IF r.ret THEN TRUE ELSE CycleNodes(g, perm, Tail(nodes), r)
         ELSE CycleNodes(g, perm, Tail(nodes), st)

\* perm is the order in which G.nodes and G.neighbors(v) iterate.
has_cycle(g, perm) ==
    CycleNodes(g, perm, perm,
               [visited |-> {}, rec_stack |-> {}, ret |-> FALSE])

\* ------------------------------------------------------------ greedy_coloring
\* Variant of FirstFree: one more than the greatest colour of a neighbour.
FirstFreeAboveAll(color, neighbor_colors) ==
    SetMax(neighbor_colors \cup {NoColor}) + 1

RECURSIVE FirstFree(_, _)
FirstFree(color, neighbor_colors) ==
    IF color \in neighbor_colors THEN FirstFree(color + 1, neighbor_colors)
    ELSE color

\* Variant of ResultGet: the colours already assigned are not looked up.
ResultGetNothing(result, neigh) == NoColor

ResultGet(result, neigh) ==
    IF neigh \in DOMAIN result THEN result[neigh] ELSE NoColor

NeighborColors(g, node, result) ==
    {ResultGet(result, neigh) : neigh \in Neighbors(g, node)}

RECURSIVE GreedyLoop(_, _, _)
GreedyLoop(g, nodes, result) ==
    IF nodes = <<>> THEN result
    ELSE LET node  == Head(nodes)
             color == FirstFree(0, NeighborColors(g, node, result))
         IN GreedyLoop(g, Tail(nodes),
                       [n \in DOMAIN result \cup {node} |->
                            IF n = node THEN color ELSE result[n]])

greedy_coloring(g) == GreedyLoop(g, Sorted(NodesOf(g)), <<>>)

\* ------------------------------------------------------------ find_max_clique
IsClique(g, S) == \A u, v \in S : u # v => {u, v} \in g.E

\* nx.find_cliques(G): every maximal clique of G, in an order the library
\* chooses; none for a graph without nodes.
FindCliques(g) ==
    {S \in SUBSET NodesOf(g) :
        /\ S # {}
        /\ IsClique(g, S)
        /\ \A n \in NodesOf(g) \ S : ~IsClique(g, S \cup {n})}

\* Variant of find_max_clique: min instead of max.
FindSmallestClique(g) ==
    LET cliques  == FindCliques(g)
        shortest == SetMin({Cardinality(c) : c \in cliques})
    IN IF cliques = {} THEN {Raised("ValueError")}
       ELSE {Returned(c) : c \in {c \in cliques : Cardinality(c) = shortest}}

\* max(cliques, key=len): the first clique of greatest length in the
\* enumeration order, so any of the cliques of greatest length; max() of an
\* empty list raises ValueError.  The set of the possible outcomes.
find_max_clique(g) ==
    LET cliques == FindCliques(g)
        longest == SetMax({Cardinality(c) : c \in cliques})
    IN IF cliques = {} THEN {Raised("ValueError")}
       ELSE {Returned(c) : c \in {c \in cliques : Cardinality(c) = longest}}

\* ------------------------------------------------------------------ GraphApp
Truthy(opt) == opt.some /\ opt.val # {}

\* node_colors = ["lightblue"] * 34, one entry per node of the graph.
DefaultColors(g) == [n \in NodesOf(g) |-> "lightblue"]

TableauColors ==
    <<"#1f77b4", "#ff7f0e", "#2ca02c", "#d62728", "#9467bd",
      "#8c564b", "#e377c2", "#7f7f7f", "#bcbd22", "#17becf">>

\* base_colors + list(mcolors.CSS4_COLORS.values()), indexed from 0.
ExtendedColor(i) ==
    IF i < TableauLen THEN TableauColors[i + 1]
    ELSE "css4:" \o ToString(i - TableauLen)

get_color_map(num_colors) ==
    [i \in 0 .. (num_colors - 1) |->
        IF num_colors <= TableauLen THEN TableauColors[i + 1]
        ELSE ExtendedColor(i % (TableauLen + Css4Len))]

Overlay(colors, S, c) ==
    [n \in DOMAIN colors |-> IF n \in S THEN c ELSE colors[n]]

ColoringLayer(colors, coloring) ==
    IF coloring.some /\ DOMAIN coloring.val # {}
    THEN LET max_color == SetMax(Range(coloring.val))
             color_map == get_color_map(max_color + 1)
         IN [n \in DOMAIN colors |->
                IF n \in DOMAIN coloring.val THEN color_map[coloring.val[n]]
                ELSE colors[n]]
    ELSE colors

CliqueLayer(colors, clique) ==
    IF Truthy(clique) THEN Overlay(colors, clique.val, "red") ELSE colors

\* Variant of HighlightLayer: lightgreen is laid down before gold.
HighlightLayerGoldLast(colors, hl) ==
    IF hl.some
    THEN Overlay(Overlay(colors, hl.val.lightgreen, "lightgreen"),
                 hl.val.gold, "gold")
    ELSE colors

HighlightLayer(colors, hl) ==
    IF hl.some
    THEN Overlay(Overlay(colors, hl.val.gold, "gold"),
                 hl.val.lightgreen, "lightgreen")
    ELSE colors

\* The node colours draw_graph hands to draw_networkx_nodes.
NodeColors(nc, coloring, clique, hl) ==
    HighlightLayer(CliqueLayer(ColoringLayer(nc, coloring), clique), hl)

\* One executed draw_graph call: the colours drawn, the thread it ran on,
\* and the values of the layers it read.
draw_graph(nc, coloring, clique, hl, title, by) ==
    [colors   |-> NodeColors(nc, coloring, clique, hl),
     by       |-> by,
     base     |-> nc,
     coloring |-> coloring,
     clique   |-> clique,
     hl       |-> hl,
     title    |-> title]

NoTitle == [kind |-> "none"]

IsAlive(t) == t.pc \in {"create", "draw_iter", "start"}

NoThread == [pc |-> "none", id |-> 0, test |-> FALSE]

OrderNodes(order) == {order[i][1] : i \in DOMAIN order}

\* update(frame) of animate_traversal.worker for the animation a, with the
\* clique highlight clq its draws read: the animation afterwards and the
\* draws made.  a.frames lists the frame arguments update has been called
\* with so far.
Update(a, frame, nc, coloring, clq, by) ==
    LET len   == Len(a.order)
        gold1 == IF frame > 0 THEN a.gold \cup {a.order[frame][1]} ELSE a.gold
        grn1  == IF frame > 1 THEN a.lightgreen \cup {a.order[frame - 1][1]}
                 ELSE a.lightgreen
        title == IF frame > 0
                 THEN [kind |-> "step", mode |-> a.mode, frame |-> frame,
                       node |-> a.order[frame][1], depth |-> a.order[frame][2]]
                 ELSE [kind |-> "mode", mode |-> a.mode]
        d1    == draw_graph(nc, coloring, clq,
                            Some([gold |-> gold1, lightgreen |-> grn1]),
                            title, by)
        grn2  == grn1 \cup OrderNodes(a.order)
        d2    == draw_graph(nc, coloring, clq,
                            Some([gold |-> gold1, lightgreen |-> grn2]),
                            [kind |-> "completed", mode |-> a.mode], by)
    IN IF frame = len
       THEN [a |-> [a EXCEPT !.gold = gold1, !.lightgreen = grn2,
                             !.frames = Append(@, frame)],
             draws |-> <<d1, d2>>]
       ELSE [a |-> [a EXCEPT !.gold = gold1, !.lightgreen = grn1,
                             !.frames = Append(@, frame)],
             draws |-> <<d1>>]

AlgVarsUnchanged == UNCHANGED res

\* GraphApp.__init__
InitApp(g) ==
    /\ G = g
    /\ current_coloring = None
    /\ clique_nodes = None
    /\ node_colors = DefaultColors(g)
    /\ anim_thread = NoThread
    /\ anim = 0
    /\ anims = <<>>
    /\ draws = <<draw_graph(DefaultColors(g), None, None, None, NoTitle,
                            "main")>>
    /\ last = [op |-> "init", outcome |-> "ok", notice |-> ""]

NoRes == [op |-> "none"]

\* The graphs GraphApp is run on: like the karate club graph it loads, they
\* are connected.
AppGraphs == {g \in GraphsOn(AppNodes) : Reachable(g, 0) = NodesOf(g)}

Init ==
    /\ \E g \in AppGraphs : InitApp(g)
    /\ res = NoRes

\* animate_traversal(order, mode), entered from run_bfs / run_dfs after they
\* have cleared current_coloring and clique_nodes.
animate_traversal(op, order, mode) ==
    IF IsAlive(anim_thread)
    THEN /\ last' = [op |-> op, outcome |-> "rejected",
                     notice |-> "Animation is already running. Wait until it finishes."]
         /\ UNCHANGED <<node_colors, anim_thread, anims>>
    ELSE /\ Len(anims) < MaxAnims
         /\ node_colors' = DefaultColors(G)
         /\ anims' = Append(anims, [mode |-> mode, order |-> order,
                                    gold |-> {}, lightgreen |-> {},
                                    next |-> 0, frames |-> <<>>,
                                    phase |-> "thread"])
         /\ anim_thread' = [pc |-> "create", id |-> Len(anims) + 1,
                            test |-> FALSE]
         /\ last' = [op |-> op, outcome |-> "accepted", notice |-> ""]

RunTraversal(op, result, mode) ==
    /\ current_coloring' = None
    /\ clique_nodes' = None
    /\ draws' = <<>>
    /\ IF result.ok
       THEN animate_traversal(op, result.val, mode)
       ELSE /\ last' = [op |-> op, outcome |-> "raised", notice |-> ""]
            /\ UNCHANGED <<node_colors, anim_thread, anims>>
    /\ UNCHANGED <<G, anim>>
    /\ AlgVarsUnchanged

run_bfs == RunTraversal("run_bfs", bfs_with_depth(G, 0), "BFS")

run_dfs == RunTraversal("run_dfs", dfs_with_depth(G, 0), "DFS")

\* The worker thread up to its first read of shared state:
\* self.anim = FuncAnimation(...); canvas.draw_idle(); anim._start() draws
\* frame 0 through update(0), and draw_graph runs up to its test
\* `if self.clique_nodes:`
WorkerCreate ==
    /\ anim_thread.pc = "create"
    /\ anim' = anim_thread.id
    /\ anim_thread' = [anim_thread EXCEPT !.pc = "draw_iter",
                                          !.test = Truthy(clique_nodes)]
    /\ draws' = <<>>
    /\ last' = [op |-> "worker", outcome |-> "drawing", notice |-> ""]
    /\ UNCHANGED <<G, current_coloring, clique_nodes, node_colors, anims>>
    /\ AlgVarsUnchanged

\* The worker thread: the rest of that draw_graph, from
\* `for n in self.clique_nodes:`, which reads the attribute again and
\* raises TypeError when the main thread has set it to None in between.
WorkerDrawIter ==
    /\ anim_thread.pc = "draw_iter"
    /\ LET id == anim_thread.id IN
       IF anim_thread.test /\ ~clique_nodes.some
       THEN /\ anim_thread' = [anim_thread EXCEPT !.pc = "crashed"]
            /\ anims' = [anims EXCEPT ![id].phase = "crashed"]
            /\ draws' = <<>>
            /\ last' = [op |-> "worker", outcome |-> "crashed",
                        notice |-> ""]
       ELSE LET clq == IF anim_thread.test THEN clique_nodes ELSE None
                u   == Update(anims[id], 0, node_colors, current_coloring,
                              clq, "worker")
            IN /\ anim_thread' = [anim_thread EXCEPT !.pc = "start"]
               /\ anims' = [anims EXCEPT ![id] = u.a]
               /\ draws' = u.draws
               /\ last' = [op |-> "worker", outcome |-> "drawn",
                           notice |-> ""]
    /\ UNCHANGED <<G, current_coloring, clique_nodes, node_colors, anim>>
    /\ AlgVarsUnchanged

\* The worker thread: event_source.start() arms the timer, worker() returns
\* and the thread ends.
WorkerStart ==
    /\ anim_thread.pc = "start"
    /\ anim_thread' = [anim_thread EXCEPT !.pc = "dead"]
    /\ anims' = [anims EXCEPT ![anim_thread.id].phase = "running"]
    /\ draws' = <<>>
    /\ last' = [op |-> "worker", outcome |-> "started", notice |-> ""]
    /\ UNCHANGED <<G, current_coloring, clique_nodes, node_colors, anim>>
    /\ AlgVarsUnchanged

\* A timer callback of animation id on the main thread: update(frame) for
\* the next frame of range(len(order) + 1).
TimerTick(id) ==
    /\ anims[id].phase = "running"
    /\ LET a == anims[id]
           u == Update(a, a.next, node_colors, current_coloring,
                       clique_nodes, "main")
       IN /\ anims' = [anims EXCEPT ![id] =
                          [u.a EXCEPT !.next = a.next + 1,
                                      !.phase = IF a.next = Len(a.order)
                                                THEN "done" ELSE "running"]]
          /\ draws' = u.draws
          /\ last' = [op |-> "timer", outcome |-> "frame", notice |-> ""]
    /\ UNCHANGED <<G, current_coloring, clique_nodes, node_colors,
                   anim_thread, anim>>
    /\ AlgVarsUnchanged

\* Variant of run_coloring: the clique highlight is left in place.
RunColoringKeepsClique ==
    /\ IF IsAlive(anim_thread)
       THEN /\ last' = [op |-> "run_coloring", outcome |-> "rejected",
                        notice |-> "Wait for any running animation to finish before coloring."]
            /\ draws' = <<>>
            /\ UNCHANGED <<current_coloring, clique_nodes, node_colors>>
       ELSE LET coloring == greedy_coloring(G) IN
            /\ current_coloring' = Some(coloring)
            /\ UNCHANGED clique_nodes
            /\ node_colors' = DefaultColors(G)
            /\ draws' = <<draw_graph(DefaultColors(G), Some(coloring),
                                     clique_nodes, None,
                                     [kind |-> "Greedy Coloring Result"],
                                     "main")>>
            /\ last' = [op |-> "run_coloring", outcome |-> "ok",
                        notice |-> ""]
    /\ UNCHANGED <<G, anim_thread, anim, anims>>
    /\ AlgVarsUnchanged

run_coloring ==
    /\ IF IsAlive(anim_thread)
       THEN /\ last' = [op |-> "run_coloring", outcome |-> "rejected",
                        notice |-> "Wait for any running animation to finish before coloring."]
            /\ draws' = <<>>
            /\ UNCHANGED <<current_coloring, clique_nodes, node_colors>>
       ELSE LET coloring == greedy_coloring(G) IN
            /\ current_coloring' = Some(coloring)
            /\ clique_nodes' = None
            /\ IF DOMAIN coloring = {}
               THEN /\ last' = [op |-> "run_coloring", outcome |-> "raised",
                                notice |-> ""]
                    /\ draws' = <<>>
                    /\ UNCHANGED node_colors
               ELSE /\ node_colors' = DefaultColors(G)
                    /\ draws' = <<draw_graph(DefaultColors(G), Some(coloring),
                                             None, None,
                                             [kind |-> "Greedy Coloring Result"],
                                             "main")>>
                    /\ last' = [op |-> "run_coloring", outcome |-> "ok",
                                notice |-> ""]
    /\ UNCHANGED <<G, anim_thread, anim, anims>>
    /\ AlgVarsUnchanged

check_cycle ==
    /\ clique_nodes' = None
    /\ \E result \in {has_cycle(G, perm) : perm \in Perms(G)} :
          last' = [op |-> "check_cycle",
                   outcome |-> IF result THEN "True" ELSE "False",
                   notice |-> ""]
    /\ draws' = <<>>
    /\ UNCHANGED <<G, current_coloring, node_colors, anim_thread, anim, anims>>
    /\ AlgVarsUnchanged

check_clique ==
    /\ current_coloring' = None
    /\ \E r \in find_max_clique(G) :
          IF r.ok
          THEN /\ clique_nodes' = Some(r.val)
               /\ draws' = <<draw_graph(node_colors, None, Some(r.val), None,
                                        [kind |-> "Maximum Clique Highlighted"],
                                        "main")>>
               /\ last' = [op |-> "check_clique", outcome |-> "ok",
                           notice |-> ""]
          ELSE /\ last' = [op |-> "check_clique", outcome |-> "raised",
                           notice |-> ""]
               /\ draws' = <<>>
               /\ UNCHANGED clique_nodes
    /\ UNCHANGED <<G, node_colors, anim_thread, anim, anims>>
    /\ AlgVarsUnchanged

\* Variant of clear_log: the clique highlight is left in place.
ClearLogKeepsClique ==
    /\ current_coloring' = None
    /\ node_colors' = DefaultColors(G)
    /\ UNCHANGED clique_nodes
    /\ draws' = <<draw_graph(DefaultColors(G), None, clique_nodes, None,
                             NoTitle, "main")>>
    /\ last' = [op |-> "clear_log", outcome |-> "ok", notice |-> ""]
    /\ UNCHANGED <<G, anim_thread, anim, anims>>
    /\ AlgVarsUnchanged

clear_log ==
    /\ current_coloring' = None
    /\ node_colors' = DefaultColors(G)
    /\ clique_nodes' = None
    /\ draws' = <<draw_graph(DefaultColors(G), None, None, None, NoTitle,
                             "main")>>
    /\ last' = [op |-> "clear_log", outcome |-> "ok", notice |-> ""]
    /\ UNCHANGED <<G, anim_thread, anim, anims>>
    /\ AlgVarsUnchanged

Timer == \E id \in DOMAIN anims : TimerTick(id)

Next ==
    \/ run_bfs
    \/ run_dfs
    \/ run_coloring
    \/ check_cycle
    \/ check_clique
    \/ clear_log
    \/ WorkerCreate
    \/ WorkerDrawIter
    \/ WorkerStart
    \/ Timer

Spec == Init /\ [][Next]_vars

\* ------------------------------------------------- the algorithms on all graphs
AlgGraphs == UNION {GraphsOn(n) : n \in 0 .. MaxNodes}

\* Start nodes handed to the traversals; 0 is the default argument.  Each
\* run applies one algorithm once to the graph it starts with.
AlgStarts == 0 .. (MaxNodes - 1)

AppVarsUnchanged ==
    UNCHANGED <<G, current_coloring, clique_nodes, node_colors, anim_thread,
                anim, anims, draws, last>>

InitAlg ==
    /\ \E g \in AlgGraphs : InitApp(g)
    /\ res = NoRes

ApplyBfs ==
    /\ res = NoRes
    /\ \E s \in AlgStarts :
          res' = [op |-> "bfs_with_depth", start |-> s,
                  ret |-> bfs_with_depth(G, s)]
    /\ AppVarsUnchanged

ApplyDfs ==
    /\ res = NoRes
    /\ \E s \in AlgStarts :
          res' = [op |-> "dfs_with_depth", start |-> s,
                  ret |-> dfs_with_depth(G, s)]
    /\ AppVarsUnchanged

ApplyHasCycle ==
    /\ res = NoRes
    /\ \E perm \in Perms(G) :
          res' = [op |-> "has_cycle", perm |-> perm,
                  ret |-> Returned(has_cycle(G, perm))]
    /\ AppVarsUnchanged

ApplyGreedyColoring ==
    /\ res = NoRes
    /\ res' = [op |-> "greedy_coloring", ret |-> Returned(greedy_coloring(G))]
    /\ AppVarsUnchanged

ApplyFindMaxClique ==
    /\ res = NoRes
    /\ \E r \in find_max_clique(G) :
          res' = [op |-> "find_max_clique", ret |-> r]
    /\ AppVarsUnchanged

NextAlg ==
    \/ ApplyBfs
    \/ ApplyDfs
    \/ ApplyHasCycle
    \/ ApplyGreedyColoring
    \/ ApplyFindMaxClique

SpecAlg == InitAlg /\ [][NextAlg]_vars

\* ------------------------------------------------------ reference definitions
\* Walks of exactly k edges from s end in Ball(g, s, k).
RECURSIVE Ball(_, _, _)
Ball(g, s, k) ==
    IF k = 0 THEN {s}
    ELSE LET B == Ball(g, s, k - 1)
         IN B \cup UNION {Neighbors(g, v) : v \in B}

\* Shortest-path distance from s to a node v reachable from s.
Distance(g, s, v) == SetMin({k \in 0 .. g.N : v \in Ball(g, s, k)})

Occurrences(order, v) == {i \in DOMAIN order : order[i][1] = v}

\* A simple cycle exists iff some edge joins two nodes that stay connected
\* without it.
HasSimpleCycle(g) ==
    \E e \in g.E :
        \E u, v \in e :
            /\ u # v
            /\ v \in Reachable([N |-> g.N, E |-> g.E \ {e}], u)

\* ---------------------------------------------------------------------- C3
\* C3: for every graph and every start node of it, bfs_with_depth returns
\* a sequence of (node, depth) that lists every node reachable from the
\* start exactly once and no other node, begins with (start, 0), has
\* non-decreasing depths, and gives each node its shortest-path distance.
C3_BfsShortestPaths ==
    (res.op = "bfs_with_depth" /\ res.start \in NodesOf(G)) =>
        /\ res.ret.ok
        /\ LET order == res.ret.val
               s     == res.start
           IN /\ \A v \in Reachable(G, s) :
                     Cardinality(Occurrences(order, v)) = 1
              /\ \A i \in DOMAIN order : order[i][1] \in Reachable(G, s)
              /\ order[1] = <<s, 0>>
              /\ \A i \in DOMAIN order :
                     i > 1 => order[i - 1][2] <= order[i][2]
              /\ \A i \in DOMAIN order :
                     order[i][2] = Distance(G, s, order[i][1])

\* A breadth-first result from a start node other than 0, on a graph with
\* a cycle and a node at distance 2.
C3_Witness ==
    /\ res.op = "bfs_with_depth"
    /\ res.start \in NodesOf(G)
    /\ res.ret.ok
    /\ res.start # 0
    /\ \E i \in DOMAIN res.ret.val : res.ret.val[i][2] = 2
    /\ HasSimpleCycle(G)

\* ---------------------------------------------------------------------- C4
\* C4: for every graph and every start node of it, dfs_with_depth returns
\* a sequence that lists every node reachable from the start exactly once,
\* begins with (start, 0), and lists the same set of nodes as
\* bfs_with_depth does.
C4_DfsVisitsReachable ==
    (res.op = "dfs_with_depth" /\ res.start \in NodesOf(G)) =>
        /\ res.ret.ok
        /\ LET order == res.ret.val
               s     == res.start
           IN /\ \A v \in Reachable(G, s) :
                     Cardinality(Occurrences(order, v)) = 1
              /\ order[1] = <<s, 0>>
              /\ bfs_with_depth(G, s).ok
              /\ OrderNodes(order) = OrderNodes(bfs_with_depth(G, s).val)

\* A depth-first result that differs from the breadth-first one as a
\* sequence, on a graph with an unreachable node.
C4_Witness ==
    /\ res.op = "dfs_with_depth"
    /\ res.start \in NodesOf(G)
    /\ res.ret.ok
    /\ Reachable(G, res.start) # NodesOf(G)
    /\ Len(res.ret.val) >= 3
    /\ res.ret.val # bfs_with_depth(G, res.start).val

\* ---------------------------------------------------------------------- C5
\* C5: greedy_coloring gives every node of the graph a colour index, and
\* the two endpoints of every edge get different indices.
C5_GreedyProper ==
    res.op = "greedy_coloring" =>
        /\ res.ret.ok
        /\ DOMAIN res.ret.val = NodesOf(G)
        /\ \A u, v \in NodesOf(G) :
               {u, v} \in G.E /\ u # v => res.ret.val[u] # res.ret.val[v]

\* A colouring of a graph that needs at least three colours.
C5_Witness ==
    /\ res.op = "greedy_coloring"
    /\ G.E # {}
    /\ \E n \in DOMAIN res.ret.val : res.ret.val[n] = 2

\* ---------------------------------------------------------------------- C6
\* C6: has_cycle returns true exactly when the graph contains a simple
\* cycle, for connected and disconnected graphs and for every order in
\* which nodes and neighbours are iterated.
C6_HasCycleIffCycle ==
    res.op = "has_cycle" =>
        /\ res.ret.ok
        /\ res.ret.val = HasSimpleCycle(G)

\* A cycle found in a component other than the one explored first.
C6_Witness ==
    /\ res.op = "has_cycle"
    /\ res.ret.val = TRUE
    /\ G.N >= 1
    /\ ~HasSimpleCycle([N |-> G.N,
                        E |-> {e \in G.E :
                                 e \subseteq Reachable(G, res.perm[1])}])

\* ---------------------------------------------------------------------- C7
\* C7: on a graph with at least one node, the set find_max_clique returns
\* is a clique, no node outside it is adjacent to all its members, and no
\* clique of the graph has more nodes.
C7_MaxClique ==
    (res.op = "find_max_clique" /\ G.N >= 1) =>
        /\ res.ret.ok
        /\ LET S == res.ret.val
           IN /\ S \subseteq NodesOf(G)
              /\ \A u, v \in S : u # v => {u, v} \in G.E
              /\ \A n \in NodesOf(G) \ S : \E m \in S : {n, m} \notin G.E
              /\ \A T \in SUBSET NodesOf(G) :
                     (\A u, v \in T : u # v => {u, v} \in G.E)
                         => Cardinality(T) <= Cardinality(S)

\* A maximum clique returned for a graph that also has a smaller maximal
\* clique.
C7_Witness ==
    /\ res.op = "find_max_clique"
    /\ res.ret.ok
    /\ Cardinality(res.ret.val) = 3
    /\ \E S \in FindCliques(G) : Cardinality(S) < 3

\* ---------------------------------------------------------------------- C9
\* C9: on a graph with zero nodes every algorithm returns an empty or
\* trivial result instead of failing: the traversals an empty sequence,
\* has_cycle false, greedy_coloring an empty mapping, find_max_clique an
\* empty set.
C9_EmptyGraphTrivial ==
    (G.N = 0 /\ res.op # "none") =>
        /\ res.ret.ok
        /\ CASE res.op = "bfs_with_depth"  -> res.ret.val = <<>>
             [] res.op = "dfs_with_depth"  -> res.ret.val = <<>>
             [] res.op = "has_cycle"       -> res.ret.val = FALSE
             [] res.op = "greedy_coloring" -> DOMAIN res.ret.val = {}
             [] res.op = "find_max_clique" -> res.ret.val = {}

\* ---------------------------------------------------------------------- C1
InProgress(a) == a.phase \in {"thread", "running"}

\* C1: at most one traversal animation runs at a time: while an accepted
\* animation has not drawn its completion frame, a further run_bfs or
\* run_dfs is rejected and no second frame sequence starts.
C1_SingleFlight ==
    Cardinality({i \in DOMAIN anims : InProgress(anims[i])}) <= 1

\* ---------------------------------------------------------------------- C2
\* C2: a run_bfs or run_dfs that is rejected because an animation is active
\* changes no state: the coloring assignment, the clique highlight and the
\* base palette are the same after the call as before it.
C2_RejectedChangesNothing ==
    [][((run_bfs \/ run_dfs) /\ last'.outcome = "rejected")
          => UNCHANGED <<current_coloring, clique_nodes, node_colors>>]_vars

\* ---------------------------------------------------------------------- C8
PaletteColor(coloring, n) ==
    get_color_map(SetMax(Range(coloring)) + 1)[coloring[n]]

C10_ClearLogResets ==
    last.op = "clear_log" =>
        /\ current_coloring = None
        /\ clique_nodes = None
        /\ node_colors = [n \in NodesOf(G) |-> "lightblue"]
        /\ Len(draws) = 1
        /\ \A n \in NodesOf(G) : draws[1].colors[n] = "lightblue"

\* clear_log issued while an animation that has already highlighted nodes
\* is still running.
C10_Witness ==
    /\ last.op = "clear_log"
    /\ \E i \in DOMAIN anims :
          /\ anims[i].phase = "running"
          /\ anims[i].gold # {}

\* --------------------------------------------------------------------- C11
\* The traversal result an animation of the given mode plays.
OrderOf(mode) ==
    IF mode = "BFS" THEN bfs_with_depth(G, 0).val
    ELSE dfs_with_depth(G, 0).val

\* C11: an animation draws its frames in the order 0, 1, ..., L, each
\* exactly once; frame 0 carries no transient highlight, and at frame i the
\* i-th traversal node is drawn gold, every earlier traversal node
\* lightgreen, and no later traversal node carries a transient highlight.
C11_FramesInOrderOnce ==
    /\ \A id \in DOMAIN anims :
           \A k \in DOMAIN anims[id].frames : anims[id].frames[k] = k - 1
    /\ \A j \in DOMAIN draws :
           LET d == draws[j] IN
           (d.hl.some /\ d.title.kind \in {"mode", "step"}) =>
               LET order == OrderOf(d.title.mode)
                   i     == IF d.title.kind = "step" THEN d.title.frame ELSE 0
               IN \A k \in DOMAIN order :
                      d.colors[order[k][1]] =
                          IF k = i THEN "gold"
                          ELSE IF k < i THEN "lightgreen"
                          ELSE NodeColors(d.base, d.coloring, d.clique,
                                          None)[order[k][1]]

\* --------------------------------------------------------------------- C12
\* The steps of the worker thread.
WorkerStep == WorkerCreate \/ WorkerDrawIter \/ WorkerStart

\* A started thread keeps being scheduled until it ends, and an armed timer
\* keeps firing until its frames are exhausted.
SpecFair ==
    /\ Spec
    /\ WF_vars(WorkerStep)
    /\ \A id \in 1 .. MaxAnims : WF_vars(id \in DOMAIN anims /\ TimerTick(id))

\* C12: every accepted animation runs to completion whatever user actions
\* are interleaved with it: it eventually makes its completion draw, after
\* which every traversed node is in the visited highlight and the animation
\* no longer counts as running.
C12_AnimationCompletes ==
    \A id \in 1 .. MaxAnims :
        [](id \in DOMAIN anims =>
              <>(/\ id \in DOMAIN anims
                 /\ anims[id].phase = "done"
                 /\ anims[id].lightgreen = OrderNodes(anims[id].order)))

\* --------------------------------------------------------------------- C13
AnimationInProgress == \E i \in DOMAIN anims : InProgress(anims[i])

\* C13: the coloring and clique layers are cleared when an animation begins
\* and stay empty until its completion frame, so in every frame an
\* animation draws each node without a transient highlight is lightblue.
C13_FramesOverBaseOnly ==
    /\ AnimationInProgress =>
           (current_coloring = None /\ clique_nodes = None)
    /\ \A j \in DOMAIN draws :
           LET d == draws[j] IN
           d.hl.some =>
               \A n \in NodesOf(G) \ (d.hl.val.gold \cup d.hl.val.lightgreen) :
                   d.colors[n] = "lightblue"

\* --------------------------------------------------------------------- C14
\* C14: run_coloring issued while a traversal animation has not yet drawn
\* its completion frame is rejected with the 'wait' notice: it stores no
\* coloring assignment, leaves the clique highlight and the base palette
\* unchanged and requests no draw.
C14_ColoringRejectedWhileAnimating ==
    [][(run_coloring /\ AnimationInProgress) =>
          /\ last'.outcome = "rejected"
          /\ last'.notice =
                 "Wait for any running animation to finish before coloring."
          /\ UNCHANGED <<current_coloring, clique_nodes, node_colors>>
          /\ draws' = <<>>]_vars

\* --------------------------------------------------------------------- C15
\* C15: no rendering call is ever executed on the animation worker thread:
\* every draw_graph call, those of frame 0 and of the animation start-up
\* included, runs on the main thread.
C15_DrawsOnMainThread ==
    \A j \in DOMAIN draws : draws[j].by = "main"

\* --------------------------------------------------------------------- C16
CycleOfFour == [N |-> 4, E |-> {{0, 1}, {1, 2}, {2, 3}, {0, 3}}]

\* C16: greedy_coloring is first-fit in ascending node order: the colour of
\* every node is the smallest non-negative integer that no neighbour with a
\* smaller identity has; the colours used are exactly 0..k-1 for some k;
\* and the 4-cycle 0-1-2-3-0 gets 0, 1, 0, 1.
C16_GreedyFirstFit ==
    res.op = "greedy_coloring" =>
        LET color == res.ret.val IN
        /\ \A v \in NodesOf(G) :
               LET used == {color[u] : u \in {u \in Neighbors(G, v) : u < v}}
               IN /\ color[v] >= 0
                  /\ color[v] \notin used
                  /\ \A c \in 0 .. (color[v] - 1) : c \in used
        /\ \E k \in 0 .. G.N : Range(color) = 0 .. (k - 1)
        /\ G = CycleOfFour => color = [n \in 0 .. 3 |-> n % 2]

\* The colouring of the 4-cycle.
C16_Witness ==
    /\ res.op = "greedy_coloring"
    /\ G = CycleOfFour

\* --------------------------------------------------------------------- C17
\* C17: dfs_with_depth produces a pre-order of its discovery tree: every
\* entry (v, d) but the first has d >= 1, the nearest earlier entry of
\* depth d-1 is a neighbour of v, its depth is at most one more than that
\* of the entry before it, and v is the smallest neighbour of that parent
\* not listed before v.
C17_DfsPreOrder ==
    (res.op = "dfs_with_depth" /\ res.start \in NodesOf(G)) =>
        /\ res.ret.ok
        /\ LET order == res.ret.val IN
           \A i \in DOMAIN order :
               i > 1 =>
                   LET v == order[i][1]
                       d == order[i][2]
                       P == {j \in 1 .. (i - 1) : order[j][2] = d - 1}
                   IN /\ d >= 1
                      /\ d <= order[i - 1][2] + 1
                      /\ P # {}
                      /\ LET parent == order[SetMax(P)][1]
                             before == {order[j][1] : j \in 1 .. (i - 1)}
                         IN /\ v \in Neighbors(G, parent)
                            /\ v = SetMin(Neighbors(G, parent) \ before)

\* A depth-first result that goes two levels down and comes back up.
C17_Witness ==
    /\ res.op = "dfs_with_depth"
    /\ res.ret.ok
    /\ \E i \in DOMAIN res.ret.val :
          /\ i > 1
          /\ res.ret.val[i - 1][2] = 2
          /\ res.ret.val[i][2] = 1

\* --------------------------------------------------------------------- C18
\* C18: in every state reachable by the user actions the coloring
\* assignment and the clique highlight are never both stored.
C18_ColoringXorClique ==
    ~(current_coloring.some /\ clique_nodes.some)

\* A coloring stored by run_coloring while an animation is still drawing
\* its frames.
C18_Witness ==
    /\ last.op = "run_coloring"
    /\ last.outcome = "ok"
    /\ current_coloring.some
    /\ \E i \in DOMAIN anims : anims[i].phase = "running"

\* --------------------------------------------------------------------- C19
StoredLayers == <<current_coloring, clique_nodes, node_colors>>

UserAction ==
    \/ run_coloring
    \/ check_cycle
    \/ check_clique
    \/ clear_log
    \/ ((run_bfs \/ run_dfs) /\ last'.outcome = "rejected")

\* C19: the display never goes stale: no user action that completes while
\* no animation is in progress changes a stored layer without requesting a
\* draw whose colours are the composition of the layers now stored.
C19_NoStaleDisplay ==
    [][(UserAction /\ ~AnimationInProgress /\ StoredLayers' # StoredLayers) =>
          /\ draws' # <<>>
          /\ draws'[Len(draws')].colors =
                 NodeColors(node_colors', current_coloring', clique_nodes',
                            None)]_vars

====
